---- MODULE Spec2Model ----
(***************************************************************************)
(* Model of the dialect-aware SQL statement builder of                     *)
(* src/src/db/stmt_builder.rs (db::StmtBuilder).                           *)
(*                                                                         *)
(* Text is modelled as a sequence of one-character strings, so that        *)
(* quoting, numbering and joining are concatenations that a check can tell *)
(* apart character by character.                                           *)
(***************************************************************************)
EXTENDS Integers, Sequences, FiniteSets

VARIABLES
    tbl,      \* StmtBuilder.tbl
    typ,      \* StmtBuilder.typ
    op,       \* the operation of the last call ("new" right after construction)
    cols,     \* last call: the cols: &[KV] argument (insert, update)
    sel,      \* last call: the cols: &[String] argument (query)
    conds,    \* last call: the conds: &[KV] argument
    arg,      \* last helper call: the col / val argument
    begin,    \* last call: value of begin_idx when the call started
    out,      \* last call: the returned String
    idx,      \* last call: value of the local begin_idx when the call returned
    saved,    \* an earlier call kept for comparison with a later identical one
    hist,     \* what new was given; whether a build call was made since, and
              \* the value its counter had when the last one returned
    xout,     \* last call: the String the sqlx::StmtBuilder returned
    thr,      \* per thread: the build call it is in, and how far it has come
    ctr       \* the begin_idx of the calls in progress, by the place it lives in

vars == <<tbl, typ, op, cols, sel, conds, arg, begin, out, idx, saved, hist, xout,
          thr, ctr>>

----------------------------------------------------------------------------
(* Bounds of the model *)

MaxCols == 2      \* longest cols: &[KV] of a call
MaxConds == 3     \* longest conds: &[KV] of a call
MaxSel == 2       \* longest cols: &[String] of a query
MaxBegin == 11    \* largest counter value handed to convert_placeholder alone
MaxIdem == 2      \* most items (columns and conditions) of a repeated call
MaxConc == 2      \* most items (columns and conditions) of a concurrent call

----------------------------------------------------------------------------
(* Program constants and text literals *)

PLACEHOLDER == <<"?">>

PG_PLACEHOLDER_BEGIN_IDX == 1

Type == {"MySQL", "PostgreSQL", "SQLite"}

\* The grave accent (U+0060) cannot be written in a TLA+ string: it is the one
\* character of the model that is spelled out.
BACKTICK == <<"GRAVE">>
DQUOTE == <<"\"">>
STAR == <<"*">>
COMMA_SP == <<",", " ">>
EQ_SP == <<" ", "=", " ">>
AND_SP == <<" ", "A", "N", "D", " ">>
WHERE_SP == <<" ", "W", "H", "E", "R", "E", " ">>
INSERT_INTO == <<"I", "N", "S", "E", "R", "T", " ", "I", "N", "T", "O", " ">>
VALUES_SP == <<" ", "V", "A", "L", "U", "E", "S", " ">>
SELECT_SP == <<"S", "E", "L", "E", "C", "T", " ">>
FROM_SP == <<" ", "F", "R", "O", "M", " ">>
UPDATE_SP == <<"U", "P", "D", "A", "T", "E", " ">>
SET_SP == <<" ", "S", "E", "T", " ">>
DELETE_FROM == <<"D", "E", "L", "E", "T", "E", " ", "F", "R", "O", "M", " ">>

----------------------------------------------------------------------------
(* Inputs *)

Tables == {<<"t">>, <<"m", "y", "_", "t", "b", "l">>}

ColNames == {<<"i", "d">>, STAR, <<"?">>}

KVS ==
    { [key |-> <<"i", "d">>, val |-> PLACEHOLDER],
      [key |-> STAR,         val |-> <<"'", "a", "?", "'">>],
      [key |-> <<"?">>,      val |-> <<"7">>] }

\* Arguments of the helper calls: the above, a text that looks like a numbered
\* marker, a doubled marker, a function call and the empty text.
Texts ==
    ColNames \cup {kv.val : kv \in KVS}
      \cup {<<"$", "1">>, <<"?", "?">>, <<"N", "O", "W", "(", ")">>, <<>>}

\* The smaller inputs of the calls that are repeated (SpecIdem)
IdemKVS ==
    { [key |-> <<"i", "d">>, val |-> PLACEHOLDER],
      [key |-> <<"n">>,      val |-> <<"7">>] }

IdemNames == {<<"i", "d">>}

\* The threads that share one builder (SpecConc)
Threads == {"a", "b"}

SeqsUpTo(S, n) == UNION {[1..k -> S] : k \in 0..n}

----------------------------------------------------------------------------
(* Library routines used by the code *)

\* Vec<String>::join(sep)
RECURSIVE Join(_, _)
Join(ss, sep) ==
    IF Len(ss) = 0 THEN <<>>
    ELSE IF Len(ss) = 1 THEN ss[1]
    ELSE ss[1] \o sep \o Join(Tail(ss), sep)

Digit(d) == <<CASE d = 0 -> "0" [] d = 1 -> "1" [] d = 2 -> "2" [] d = 3 -> "3"
                [] d = 4 -> "4" [] d = 5 -> "5" [] d = 6 -> "6" [] d = 7 -> "7"
                [] d = 8 -> "8" [] OTHER -> "9">>

\* Display of a non-negative integer: decimal digits, no padding
RECURSIVE Decimal(_)
Decimal(n) == IF n < 10 THEN Digit(n) ELSE Decimal(n \div 10) \o Digit(n % 10)

\* format!("{}", n) for n: i32
Itoa(n) == IF n < 0 THEN <<"-">> \o Decimal(0 - n) ELSE Decimal(n)

----------------------------------------------------------------------------
(* StmtBuilder *)

\* escape_col without the early return for the wildcard
escape_col_quote_all(self, col) ==
    IF self.typ = "MySQL" THEN BACKTICK \o col \o BACKTICK
    ELSE DQUOTE \o col \o DQUOTE

\* escape_col with SQLite in the MySQL arm of the match
escape_col_sqlite_backtick(self, col) ==
    IF col = STAR THEN col
    ELSE IF self.typ \in {"MySQL", "SQLite"} THEN BACKTICK \o col \o BACKTICK
    ELSE DQUOTE \o col \o DQUOTE


escape_col(self, col) ==
    IF col = STAR THEN col
    ELSE IF self.typ = "MySQL" THEN BACKTICK \o col \o BACKTICK
    ELSE DQUOTE \o col \o DQUOTE

\* convert_placeholder formatting the counter after the increment
convert_placeholder_post(self, begin_idx, val) ==
    IF self.typ \in {"MySQL", "SQLite"} THEN [s |-> val, idx |-> begin_idx]
    ELSE IF val = PLACEHOLDER
         THEN LET n == begin_idx + 1
              IN  [s |-> <<"$">> \o Itoa(n), idx |-> n]
         ELSE [s |-> val, idx |-> begin_idx]

\* convert_placeholder with SQLite in the PostgreSQL arm of the match
convert_placeholder_sqlite_numbered(self, begin_idx, val) ==
    IF self.typ = "MySQL" THEN [s |-> val, idx |-> begin_idx]
    ELSE IF val = PLACEHOLDER
         THEN LET n == begin_idx + 1
              IN  [s |-> <<"$">> \o Itoa(n - 1), idx |-> n]
         ELSE [s |-> val, idx |-> begin_idx]

\* convert_placeholder testing val.starts_with(PLACEHOLDER)
convert_placeholder_prefix(self, begin_idx, val) ==
    IF self.typ \in {"MySQL", "SQLite"} THEN [s |-> val, idx |-> begin_idx]
    ELSE IF Len(val) > 0 /\ SubSeq(val, 1, 1) = PLACEHOLDER
         THEN LET n == begin_idx + 1
              IN  [s |-> <<"$">> \o Itoa(n - 1), idx |-> n]
         ELSE [s |-> val, idx |-> begin_idx]

\* convert_placeholder without the *begin_idx += 1
convert_placeholder_stuck(self, begin_idx, val) ==
    IF self.typ \in {"MySQL", "SQLite"} THEN [s |-> val, idx |-> begin_idx]
    ELSE IF val = PLACEHOLDER
         THEN [s |-> <<"$">> \o Itoa(begin_idx), idx |-> begin_idx]
         ELSE [s |-> val, idx |-> begin_idx]

\* Returns the String and the value left in *begin_idx. The counter is an i32;
\* it starts at 1 and moves by one per marker, so that within the bounds of the
\* model the increment is far from the end of its range.
convert_placeholder(self, begin_idx, val) ==
    IF self.typ \in {"MySQL", "SQLite"} THEN [s |-> val, idx |-> begin_idx]
    ELSE IF val = PLACEHOLDER
         THEN LET n == begin_idx + 1
              IN  [s |-> <<"$">> \o Itoa(n - 1), idx |-> n]
         ELSE [s |-> val, idx |-> begin_idx]

\* kvs.iter().map(|kv| ... self.convert_placeholder(begin_idx, kv.val) ...):
\* the values converted one after the other, in input order, through the one
\* counter. Returns the converted values and the value left in the counter.
RECURSIVE convert_vals(_, _, _)
convert_vals(self, begin_idx, kvs) ==
    IF Len(kvs) = 0 THEN [ss |-> <<>>, idx |-> begin_idx]
    ELSE LET h == convert_placeholder(self, begin_idx, kvs[1].val)
             t == convert_vals(self, h.idx, Tail(kvs))
         IN  [ss |-> <<h.s>> \o t.ss, idx |-> t.idx]

\* build_conds passing the keys through escape_col
build_conds_escaped(self, begin_idx, cnds) ==
    IF Len(cnds) = 0 THEN [s |-> <<>>, idx |-> begin_idx]
    ELSE LET c == convert_vals(self, begin_idx, cnds)
         IN  [s |-> WHERE_SP \o
                    Join([i \in 1..Len(cnds) |->
                             escape_col(self, cnds[i].key) \o EQ_SP \o c.ss[i]],
                         AND_SP),
              idx |-> c.idx]

\* build_conds without the is_empty test
build_conds_always_where(self, begin_idx, cnds) ==
    LET c == convert_vals(self, begin_idx, cnds)
    IN  [s |-> WHERE_SP \o
               Join([i \in 1..Len(cnds) |-> cnds[i].key \o EQ_SP \o c.ss[i]],
                    AND_SP),
         idx |-> c.idx]


build_conds(self, begin_idx, cnds) ==
    IF Len(cnds) = 0 THEN [s |-> <<>>, idx |-> begin_idx]
    ELSE LET c == convert_vals(self, begin_idx, cnds)
         IN  [s |-> WHERE_SP \o
                    Join([i \in 1..Len(cnds) |-> cnds[i].key \o EQ_SP \o c.ss[i]],
                         AND_SP),
              idx |-> c.idx]

\* build_insert_stmt collecting the values in reverse order
build_insert_stmt_reversed(self, cls) ==
    IF Len(cls) = 0 THEN [s |-> <<>>, idx |-> PG_PLACEHOLDER_BEGIN_IDX]
    ELSE LET c == convert_vals(self, PG_PLACEHOLDER_BEGIN_IDX, cls)
             keys == [i \in 1..Len(cls) |-> escape_col(self, cls[i].key)]
             vals == [i \in 1..Len(cls) |-> c.ss[Len(cls) + 1 - i]]
         IN  [s |-> INSERT_INTO \o self.tbl \o <<" ", "(">> \o Join(keys, COMMA_SP)
                    \o <<")">> \o VALUES_SP \o <<"(">> \o Join(vals, COMMA_SP)
                    \o <<")">>,
              idx |-> c.idx]

build_insert_stmt(self, cls) ==
    IF Len(cls) = 0 THEN [s |-> <<>>, idx |-> PG_PLACEHOLDER_BEGIN_IDX]
    ELSE LET c == convert_vals(self, PG_PLACEHOLDER_BEGIN_IDX, cls)
             keys == [i \in 1..Len(cls) |-> escape_col(self, cls[i].key)]
         IN  [s |-> INSERT_INTO \o self.tbl \o <<" ", "(">> \o Join(keys, COMMA_SP)
                    \o <<")">> \o VALUES_SP \o <<"(">> \o Join(c.ss, COMMA_SP)
                    \o <<")">>,
              idx |-> c.idx]

\* build_query_stmt without the default for an empty column list
build_query_stmt_no_default(self, cls, cnds) ==
    LET cols_str == Join([i \in 1..Len(cls) |-> escape_col(self, cls[i])],
                         COMMA_SP)
        w == build_conds(self, PG_PLACEHOLDER_BEGIN_IDX, cnds)
    IN  [s |-> SELECT_SP \o cols_str \o FROM_SP \o self.tbl \o w.s,
         idx |-> w.idx]

\* build_query_stmt translating the selected names like values
build_query_stmt_names_numbered(self, cls, cnds) ==
    LET c == convert_vals(self, PG_PLACEHOLDER_BEGIN_IDX,
                          [i \in 1..Len(cls) |-> [key |-> cls[i], val |-> cls[i]]])
        cols_str == IF Len(cls) = 0 THEN STAR
                    ELSE Join([i \in 1..Len(cls) |-> escape_col(self, c.ss[i])],
                              COMMA_SP)
        w == build_conds(self, c.idx, cnds)
    IN  [s |-> SELECT_SP \o cols_str \o FROM_SP \o self.tbl \o w.s,
         idx |-> w.idx]

build_query_stmt(self, cls, cnds) ==
    LET cols_str == IF Len(cls) = 0 THEN STAR
                    ELSE Join([i \in 1..Len(cls) |-> escape_col(self, cls[i])],
                              COMMA_SP)
        w == build_conds(self, PG_PLACEHOLDER_BEGIN_IDX, cnds)
    IN  [s |-> SELECT_SP \o cols_str \o FROM_SP \o self.tbl \o w.s,
         idx |-> w.idx]

\* build_update_stmt handing build_conds a counter of its own
build_update_stmt_restart(self, cls, cnds) ==
    IF Len(cls) = 0 THEN [s |-> <<>>, idx |-> PG_PLACEHOLDER_BEGIN_IDX]
    ELSE LET c == convert_vals(self, PG_PLACEHOLDER_BEGIN_IDX, cls)
             sets == [i \in 1..Len(cls) |->
                         escape_col(self, cls[i].key) \o EQ_SP \o c.ss[i]]
             w == build_conds(self, PG_PLACEHOLDER_BEGIN_IDX, cnds)
         IN  [s |-> UPDATE_SP \o self.tbl \o SET_SP \o Join(sets, COMMA_SP) \o w.s,
              idx |-> w.idx]

\* build_update_stmt without the early return for an empty column list
build_update_stmt_no_guard(self, cls, cnds) ==
    LET c == convert_vals(self, PG_PLACEHOLDER_BEGIN_IDX, cls)
        sets == [i \in 1..Len(cls) |->
                    escape_col(self, cls[i].key) \o EQ_SP \o c.ss[i]]
        w == build_conds(self, c.idx, cnds)
    IN  [s |-> UPDATE_SP \o self.tbl \o SET_SP \o Join(sets, COMMA_SP) \o w.s,
         idx |-> w.idx]


build_update_stmt(self, cls, cnds) ==
    IF Len(cls) = 0 THEN [s |-> <<>>, idx |-> PG_PLACEHOLDER_BEGIN_IDX]
    ELSE LET c == convert_vals(self, PG_PLACEHOLDER_BEGIN_IDX, cls)
             sets == [i \in 1..Len(cls) |->
                         escape_col(self, cls[i].key) \o EQ_SP \o c.ss[i]]
             w == build_conds(self, c.idx, cnds)
         IN  [s |-> UPDATE_SP \o self.tbl \o SET_SP \o Join(sets, COMMA_SP) \o w.s,
              idx |-> w.idx]

\* build_delete_stmt starting from the counter the previous call left behind
build_delete_stmt_persist(self, cnds) ==
    LET w == build_conds(self, hist.last, cnds)
    IN  [s |-> DELETE_FROM \o self.tbl \o w.s, idx |-> w.idx]


build_delete_stmt(self, cnds) ==
    LET w == build_conds(self, PG_PLACEHOLDER_BEGIN_IDX, cnds)
    IN  [s |-> DELETE_FROM \o self.tbl \o w.s, idx |-> w.idx]

----------------------------------------------------------------------------
(* The state machine: a builder and the calls made on it *)

Self == [tbl |-> tbl, typ |-> typ]

get_tbl(self) == self.tbl

get_typ(self) == self.typ

IdleThread ==
    [pc |-> "idle", op |-> "none", cols |-> <<>>, sel |-> <<>>, conds |-> <<>>,
     pos |-> 0, acc |-> <<>>, out |-> <<>>, mixed |-> FALSE]

NoCall == [set |-> FALSE, between |-> FALSE, op |-> "new",
           cols |-> <<>>, sel |-> <<>>, conds |-> <<>>, out |-> <<>>]

\* StmtBuilder::new(tbl, typ)
Init ==
    /\ tbl \in Tables
    /\ typ \in Type
    /\ op = "new"
    /\ cols = <<>>
    /\ sel = <<>>
    /\ conds = <<>>
    /\ arg = <<>>
    /\ begin = PG_PLACEHOLDER_BEGIN_IDX
    /\ out = <<>>
    /\ idx = PG_PLACEHOLDER_BEGIN_IDX
    /\ saved = NoCall
    /\ hist = [tbl |-> tbl, typ |-> typ, built |-> FALSE,
               last |-> PG_PLACEHOLDER_BEGIN_IDX]
    /\ xout = <<>>
    /\ thr = [t \in Threads |-> IdleThread]
    /\ ctr = [t \in Threads |-> PG_PLACEHOLDER_BEGIN_IDX]

\* The caller holds no result: a call can start.
Idle == op \in {"new", "idle"}

BuildOps == {"insert", "query", "update", "delete"}

\* A call that takes the table name out of the builder (mem::take on self.tbl)
Returned_takes_tbl(name, cls, sl, cnds, a, b, r) ==
    /\ Idle
    /\ op' = name
    /\ cols' = cls
    /\ sel' = sl
    /\ conds' = cnds
    /\ arg' = a
    /\ begin' = b
    /\ out' = r.s
    /\ idx' = r.idx
    /\ hist' = IF name \in BuildOps
               THEN [hist EXCEPT !.built = TRUE, !.last = r.idx]
               ELSE hist
    /\ tbl' = IF name \in BuildOps THEN <<>> ELSE tbl
    /\ UNCHANGED <<typ, thr, ctr>>

\* A call made and returned: the arguments, the counter's first and last value
\* and the returned String are recorded. Every method takes &self: the builder
\* is left as it was.
Returned(name, cls, sl, cnds, a, b, r) ==
    /\ Idle
    /\ op' = name
    /\ cols' = cls
    /\ sel' = sl
    /\ conds' = cnds
    /\ arg' = a
    /\ begin' = b
    /\ out' = r.s
    /\ idx' = r.idx
    /\ hist' = IF name \in BuildOps
               THEN [hist EXCEPT !.built = TRUE, !.last = r.idx]
               ELSE hist
    /\ UNCHANGED <<tbl, typ, thr, ctr>>

Insert ==
    /\ \E cls \in SeqsUpTo(KVS, MaxCols) :
        Returned("insert", cls, <<>>, <<>>, <<>>, PG_PLACEHOLDER_BEGIN_IDX,
                 build_insert_stmt(Self, cls))
    /\ UNCHANGED <<saved, xout>>

Query ==
    /\ \E sl \in SeqsUpTo(ColNames, MaxSel), cnds \in SeqsUpTo(KVS, MaxConds) :
        Returned("query", <<>>, sl, cnds, <<>>, PG_PLACEHOLDER_BEGIN_IDX,
                 build_query_stmt(Self, sl, cnds))
    /\ UNCHANGED <<saved, xout>>

Update ==
    /\ \E cls \in SeqsUpTo(KVS, MaxCols), cnds \in SeqsUpTo(KVS, MaxConds) :
        Returned("update", cls, <<>>, cnds, <<>>, PG_PLACEHOLDER_BEGIN_IDX,
                 build_update_stmt(Self, cls, cnds))
    /\ UNCHANGED <<saved, xout>>

Delete ==
    /\ \E cnds \in SeqsUpTo(KVS, MaxConds) :
        Returned("delete", <<>>, <<>>, cnds, <<>>, PG_PLACEHOLDER_BEGIN_IDX,
                 build_delete_stmt(Self, cnds))
    /\ UNCHANGED <<saved, xout>>

\* One call of the private escape_col
EscapeCol ==
    /\ \E col \in Texts :
        Returned("escape_col", <<>>, <<>>, <<>>, col, PG_PLACEHOLDER_BEGIN_IDX,
                 [s |-> escape_col(Self, col), idx |-> PG_PLACEHOLDER_BEGIN_IDX])
    /\ UNCHANGED <<saved, xout>>

\* One call of the private convert_placeholder, the counter being at b
ConvertPlaceholder ==
    /\ \E b \in PG_PLACEHOLDER_BEGIN_IDX..MaxBegin, val \in Texts :
        Returned("convert_placeholder", <<>>, <<>>, <<>>, val, b,
                 convert_placeholder(Self, b, val))
    /\ UNCHANGED <<saved, xout>>

\* get_tbl
GetTbl ==
    /\ Returned("get_tbl", <<>>, <<>>, <<>>, <<>>, PG_PLACEHOLDER_BEGIN_IDX,
                [s |-> get_tbl(Self), idx |-> PG_PLACEHOLDER_BEGIN_IDX])
    /\ UNCHANGED <<saved, xout>>

\* get_typ
GetTyp ==
    /\ Returned("get_typ", <<>>, <<>>, <<>>, <<>>, PG_PLACEHOLDER_BEGIN_IDX,
                [s |-> get_typ(Self), idx |-> PG_PLACEHOLDER_BEGIN_IDX])
    /\ UNCHANGED <<saved, xout>>

\* The caller lets go of the returned String and of the arguments; the call's
\* counter is gone with the call. The builder is as it was.
Release ==
    /\ ~Idle
    /\ op' = "idle"
    /\ cols' = <<>>
    /\ sel' = <<>>
    /\ conds' = <<>>
    /\ arg' = <<>>
    /\ begin' = PG_PLACEHOLDER_BEGIN_IDX
    /\ out' = <<>>
    /\ idx' = PG_PLACEHOLDER_BEGIN_IDX
    /\ xout' = <<>>
    /\ UNCHANGED <<tbl, typ, saved, hist, thr, ctr>>

Next ==
    \/ Insert
    \/ Query
    \/ Update
    \/ Delete
    \/ EscapeCol
    \/ ConvertPlaceholder
    \/ GetTbl
    \/ GetTyp
    \/ Release

Spec == Init /\ [][Next]_vars

----------------------------------------------------------------------------
(* The same builder, with one call kept and compared with its repetition *)

Snapshot ==
    [set |-> TRUE, between |-> FALSE, op |-> op, cols |-> cols, sel |-> sel,
     conds |-> conds, out |-> out]

SameCall ==
    /\ saved.set
    /\ op = saved.op
    /\ cols = saved.cols
    /\ sel = saved.sel
    /\ conds = saved.conds

\* Keeps the call just made, once; afterwards notes that another call was made.
Remember ==
    IF saved.set
    THEN saved' = [saved EXCEPT !.between =
                       \/ @
                       \/ op' # saved.op
                       \/ cols' # saved.cols
                       \/ sel' # saved.sel
                       \/ conds' # saved.conds]
    ELSE saved' \in {saved, Snapshot'}

IdemInsert ==
    /\ \E cls \in SeqsUpTo(IdemKVS, MaxIdem) :
        Returned("insert", cls, <<>>, <<>>, <<>>, PG_PLACEHOLDER_BEGIN_IDX,
                 build_insert_stmt(Self, cls))
    /\ Remember
    /\ UNCHANGED xout

IdemQuery ==
    /\ \E sl \in SeqsUpTo(IdemNames, MaxIdem), cnds \in SeqsUpTo(IdemKVS, MaxIdem) :
        /\ Len(sl) + Len(cnds) <= MaxIdem
        /\ Returned("query", <<>>, sl, cnds, <<>>, PG_PLACEHOLDER_BEGIN_IDX,
                    build_query_stmt(Self, sl, cnds))
    /\ Remember
    /\ UNCHANGED xout

IdemUpdate ==
    /\ \E cls \in SeqsUpTo(IdemKVS, MaxIdem), cnds \in SeqsUpTo(IdemKVS, MaxIdem) :
        /\ Len(cls) + Len(cnds) <= MaxIdem
        /\ Returned("update", cls, <<>>, cnds, <<>>, PG_PLACEHOLDER_BEGIN_IDX,
                    build_update_stmt(Self, cls, cnds))
    /\ Remember
    /\ UNCHANGED xout

IdemDelete ==
    /\ \E cnds \in SeqsUpTo(IdemKVS, MaxIdem) :
        Returned("delete", <<>>, <<>>, cnds, <<>>, PG_PLACEHOLDER_BEGIN_IDX,
                 build_delete_stmt(Self, cnds))
    /\ Remember
    /\ UNCHANGED xout

NextIdem ==
    \/ IdemInsert
    \/ IdemQuery
    \/ IdemUpdate
    \/ IdemDelete
    \/ Release

SpecIdem == Init /\ [][NextIdem]_vars

----------------------------------------------------------------------------
(* Several threads calling the build operations of one shared builder. A    *)
(* call is taken apart into its steps: the counter is declared, the values  *)
(* are converted one by one, the statement is formatted and returned.       *)

\* All calls keep their counter in one place (a static instead of a local)
slot_shared(t) == "a"

\* Where the begin_idx of thread t's call lives: a local of the call (let mut
\* begin_idx), so each call in progress has its own.
slot(t) == t

\* build_conds, the values already converted
format_conds(cnds, vs) ==
    IF Len(cnds) = 0 THEN <<>>
    ELSE WHERE_SP \o
         Join([i \in 1..Len(cnds) |-> cnds[i].key \o EQ_SP \o vs[i]], AND_SP)

\* The format! of the four operations, the values already converted
format_stmt(self, c, vs) ==
    IF c.op = "insert"
    THEN INSERT_INTO \o self.tbl \o <<" ", "(">>
           \o Join([i \in 1..Len(c.cols) |-> escape_col(self, c.cols[i].key)],
                   COMMA_SP)
           \o <<")">> \o VALUES_SP \o <<"(">> \o Join(vs, COMMA_SP) \o <<")">>
    ELSE IF c.op = "query"
    THEN SELECT_SP
           \o (IF Len(c.sel) = 0 THEN STAR
               ELSE Join([i \in 1..Len(c.sel) |-> escape_col(self, c.sel[i])],
                         COMMA_SP))
           \o FROM_SP \o self.tbl \o format_conds(c.conds, vs)
    ELSE IF c.op = "update"
    THEN UPDATE_SP \o self.tbl \o SET_SP
           \o Join([i \in 1..Len(c.cols) |->
                       escape_col(self, c.cols[i].key) \o EQ_SP \o vs[i]], COMMA_SP)
           \o format_conds(c.conds, SubSeq(vs, Len(c.cols) + 1, Len(vs)))
    ELSE DELETE_FROM \o self.tbl \o format_conds(c.conds, vs)

\* The values a call converts, in the order it converts them
ValsOf(c) ==
    [i \in 1..(Len(c.cols) + Len(c.conds)) |->
        IF i <= Len(c.cols) THEN c.cols[i].val ELSE c.conds[i - Len(c.cols)].val]

\* The calls the threads make
ConcCalls ==
    { [op |-> o, cols |-> cls, sel |-> sl, conds |-> cnds] :
        o \in BuildOps, cls \in SeqsUpTo(IdemKVS, MaxConc),
        sl \in SeqsUpTo(IdemNames, 1), cnds \in SeqsUpTo(IdemKVS, MaxConc) }

WellFormed(c) ==
    /\ Len(c.cols) + Len(c.conds) <= MaxConc
    /\ c.op \in {"query", "delete"} => Len(c.cols) = 0
    /\ c.op = "insert" => Len(c.conds) = 0
    /\ c.op # "query" => Len(c.sel) = 0

otherVars == <<tbl, typ, op, cols, sel, conds, arg, begin, out, idx, saved, hist, xout>>

\* Thread t calls a build operation. With an empty column list insert and
\* update return at once; otherwise the call declares its counter.
ThreadCall(t) ==
    /\ thr[t].pc = "idle"
    /\ \E c \in ConcCalls :
        /\ WellFormed(c)
        /\ IF c.op \in {"insert", "update"} /\ Len(c.cols) = 0
           THEN /\ thr' = [thr EXCEPT ![t] =
                            [IdleThread EXCEPT !.pc = "done", !.op = c.op,
                                               !.conds = c.conds]]
                /\ UNCHANGED ctr
           ELSE /\ thr' = [thr EXCEPT ![t] =
                            [IdleThread EXCEPT !.pc = "run", !.op = c.op,
                                               !.cols = c.cols, !.sel = c.sel,
                                               !.conds = c.conds]]
                /\ ctr' = [ctr EXCEPT ![slot(t)] = PG_PLACEHOLDER_BEGIN_IDX]
    /\ UNCHANGED otherVars

\* Another thread is in the middle of its conversions
OthersBusy(t) ==
    \E u \in Threads \ {t} :
        thr[u].pc = "run" /\ thr[u].pos > 0 /\ thr[u].pos < Len(ValsOf(thr[u]))

\* Thread t converts the next value of its call
ThreadConvert(t) ==
    /\ thr[t].pc = "run"
    /\ thr[t].pos < Len(ValsOf(thr[t]))
    /\ LET h == convert_placeholder(Self, ctr[slot(t)], ValsOf(thr[t])[thr[t].pos + 1])
       IN  /\ thr' = [thr EXCEPT ![t].pos = @ + 1,
                                 ![t].acc = Append(@, h.s),
                                 ![t].mixed = @ \/ OthersBusy(t)]
           /\ ctr' = [ctr EXCEPT ![slot(t)] = h.idx]
    /\ UNCHANGED otherVars

\* Thread t formats the statement and returns it
ThreadReturn(t) ==
    /\ thr[t].pc = "run"
    /\ thr[t].pos = Len(ValsOf(thr[t]))
    /\ thr' = [thr EXCEPT ![t].pc = "done",
                          ![t].out = format_stmt(Self, thr[t], thr[t].acc)]
    /\ UNCHANGED ctr
    /\ UNCHANGED otherVars

\* Thread t lets go of the returned String
ThreadDrop(t) ==
    /\ thr[t].pc = "done"
    /\ thr' = [thr EXCEPT ![t] = IdleThread]
    /\ UNCHANGED ctr
    /\ UNCHANGED otherVars

NextConc ==
    \E t \in Threads :
        \/ ThreadCall(t)
        \/ ThreadConvert(t)
        \/ ThreadReturn(t)
        \/ ThreadDrop(t)

SpecConc == Init /\ [][NextConc]_vars

----------------------------------------------------------------------------
(* sqlx::StmtBuilder, the builder without a dialect, and the calls that hand *)
(* the same arguments to both builders.                                      *)

\* The pairs given to both builders: a marker, a PostgreSQL placeholder as its
\* value, the wildcard and the marker as names
SqlxKVS ==
    { [key |-> <<"i", "d">>, val |-> <<"?">>],
      [key |-> <<"?">>, val |-> <<"$", "1">>],
      [key |-> STAR, val |-> <<"'", "a", "?", "'">>] }

\* sqlx::StmtBuilder { tbl } made from the same table name
SqlxSelf == [tbl |-> tbl]

\* sqlx build_conds passing the values through the PostgreSQL numbering
sqlx_build_conds_numbered(self, cnds) ==
    build_conds([tbl |-> self.tbl, typ |-> "PostgreSQL"],
                PG_PLACEHOLDER_BEGIN_IDX, cnds).s

sqlx_build_conds(self, cnds) ==
    IF Len(cnds) = 0 THEN <<>>
    ELSE WHERE_SP \o
         Join([i \in 1..Len(cnds) |-> cnds[i].key \o EQ_SP \o cnds[i].val], AND_SP)

sqlx_build_insert_stmt(self, cls) ==
    IF Len(cls) = 0 THEN <<>>
    ELSE LET keys == [i \in 1..Len(cls) |-> cls[i].key]
             vals == [i \in 1..Len(cls) |-> cls[i].val]
         IN  INSERT_INTO \o self.tbl \o <<" ", "(">> \o Join(keys, COMMA_SP)
               \o <<")">> \o VALUES_SP \o <<"(">> \o Join(vals, COMMA_SP) \o <<")">>

sqlx_build_query_stmt(self, cls, cnds) ==
    LET cols_str == IF Len(cls) = 0 THEN STAR ELSE Join(cls, COMMA_SP)
    IN  SELECT_SP \o cols_str \o FROM_SP \o self.tbl \o sqlx_build_conds(self, cnds)

sqlx_build_update_stmt(self, cls, cnds) ==
    IF Len(cls) = 0 THEN <<>>
    ELSE UPDATE_SP \o self.tbl \o SET_SP
           \o Join([i \in 1..Len(cls) |-> cls[i].key \o EQ_SP \o cls[i].val],
                   COMMA_SP)
           \o sqlx_build_conds(self, cnds)

\* sqlx build_delete_stmt with a blank after the table name
sqlx_build_delete_stmt_blank(self, cnds) ==
    DELETE_FROM \o self.tbl \o <<" ">> \o sqlx_build_conds(self, cnds)

sqlx_build_delete_stmt(self, cnds) ==
    DELETE_FROM \o self.tbl \o sqlx_build_conds(self, cnds)

BothInsert ==
    /\ \E cls \in SeqsUpTo(SqlxKVS, MaxCols) :
        /\ Returned("insert", cls, <<>>, <<>>, <<>>, PG_PLACEHOLDER_BEGIN_IDX,
                    build_insert_stmt(Self, cls))
        /\ xout' = sqlx_build_insert_stmt(SqlxSelf, cls)
    /\ UNCHANGED saved

BothQuery ==
    /\ \E cls \in SeqsUpTo(ColNames, MaxSel), cnds \in SeqsUpTo(SqlxKVS, MaxConds) :
        /\ Returned("query", <<>>, cls, cnds, <<>>, PG_PLACEHOLDER_BEGIN_IDX,
                    build_query_stmt(Self, cls, cnds))
        /\ xout' = sqlx_build_query_stmt(SqlxSelf, cls, cnds)
    /\ UNCHANGED saved

BothUpdate ==
    /\ \E cls \in SeqsUpTo(SqlxKVS, MaxCols), cnds \in SeqsUpTo(SqlxKVS, MaxConds) :
        /\ Returned("update", cls, <<>>, cnds, <<>>, PG_PLACEHOLDER_BEGIN_IDX,
                    build_update_stmt(Self, cls, cnds))
        /\ xout' = sqlx_build_update_stmt(SqlxSelf, cls, cnds)
    /\ UNCHANGED saved

BothDelete ==
    /\ \E cnds \in SeqsUpTo(SqlxKVS, MaxConds) :
        /\ Returned("delete", <<>>, <<>>, cnds, <<>>, PG_PLACEHOLDER_BEGIN_IDX,
                    build_delete_stmt(Self, cnds))
        /\ xout' = sqlx_build_delete_stmt(SqlxSelf, cnds)
    /\ UNCHANGED saved

NextSqlx ==
    \/ BothInsert
    \/ BothQuery
    \/ BothUpdate
    \/ BothDelete
    \/ Release

SpecSqlx == Init /\ [][NextSqlx]_vars

----------------------------------------------------------------------------
(* The statements as the specification describes them, for the arguments   *)
(* of the last call.                                                       *)

\* The values of the call in the order they appear in the statement:
\* column values first, condition values after them
CallVals ==
    [i \in 1..(Len(cols) + Len(conds)) |->
        IF i <= Len(cols) THEN cols[i].val ELSE conds[i - Len(cols)].val]

IsMarker(v) == v = PLACEHOLDER

\* How many of the first i values are the marker
Rank(V, i) == Cardinality({j \in 1..i : IsMarker(V[j])})

Markers == Rank(CallVals, Len(CallVals))

\* The i-th value as PostgreSQL expects it: the N-th marker is $N
Numbered(V, i) == IF IsMarker(V[i]) THEN <<"$">> \o Itoa(Rank(V, i)) ELSE V[i]

\* The i-th value as MySQL and SQLite expect it
Verbatim(V, i) == V[i]

Translated(V, i) == IF typ = "PostgreSQL" THEN Numbered(V, i) ELSE Verbatim(V, i)

Quoted(c) ==
    IF typ = "MySQL" THEN BACKTICK \o c \o BACKTICK ELSE DQUOTE \o c \o DQUOTE

Name(c) == IF c = STAR THEN STAR ELSE Quoted(c)

SetClause ==
    Join([i \in 1..Len(cols) |-> Name(cols[i].key) \o EQ_SP \o Translated(CallVals, i)],
         COMMA_SP)

WhereClause ==
    IF Len(conds) = 0 THEN <<>>
    ELSE WHERE_SP \o
         Join([i \in 1..Len(conds) |->
                  conds[i].key \o EQ_SP \o Translated(CallVals, Len(cols) + i)],
              AND_SP)

SelectList ==
    IF Len(sel) = 0 THEN STAR
    ELSE Join([i \in 1..Len(sel) |-> Name(sel[i])], COMMA_SP)

InsertStmt ==
    INSERT_INTO \o tbl \o <<" ", "(">>
      \o Join([i \in 1..Len(cols) |-> Name(cols[i].key)], COMMA_SP)
      \o <<")">> \o VALUES_SP \o <<"(">>
      \o Join([i \in 1..Len(cols) |-> Translated(CallVals, i)], COMMA_SP)
      \o <<")">>

QueryStmt == SELECT_SP \o SelectList \o FROM_SP \o tbl \o WhereClause

UpdateStmt == UPDATE_SP \o tbl \o SET_SP \o SetClause \o WhereClause

DeleteStmt == DELETE_FROM \o tbl \o WhereClause

\* t occurs in s as a run of consecutive characters
Contains(s, t) ==
    \E i \in 1..(Len(s) - Len(t) + 1) : SubSeq(s, i, i + Len(t) - 1) = t

EndsWith(s, t) ==
    Len(s) >= Len(t) /\ SubSeq(s, Len(s) - Len(t) + 1, Len(s)) = t

KV(k, v) == [key |-> k, val |-> v]

----------------------------------------------------------------------------
(* The claims *)

\* C1: for PostgreSQL and a non-empty column list, build_update_stmt numbers the
\* markers continuously over the SET values and then the WHERE values: the N-th
\* marker of the statement is $N, so the first marker of the WHERE clause gets
\* the number of SET markers plus one.
C1_UpdateNumbering ==
    (typ = "PostgreSQL" /\ op = "update" /\ Len(cols) > 0) =>
        /\ out = UpdateStmt
        /\ \A i \in 1..Len(conds) :
             (IsMarker(conds[i].val) /\ \A j \in 1..(i - 1) : ~IsMarker(conds[j].val))
               => Contains(out, conds[i].key \o EQ_SP \o <<"$">>
                                 \o Itoa(Rank(CallVals, Len(cols)) + 1))

\* Two SET markers, then a WHERE marker after a literal: $1, $2 and $3.
C1_Witness ==
    /\ typ = "PostgreSQL"
    /\ op = "update"
    /\ tbl = <<"t">>
    /\ cols = <<KV(<<"i", "d">>, <<"?">>), KV(<<"i", "d">>, <<"?">>)>>
    /\ conds = <<KV(<<"?">>, <<"7">>), KV(<<"i", "d">>, <<"?">>)>>
    /\ out = <<"U", "P", "D", "A", "T", "E", " ", "t", " ", "S", "E", "T", " ", "\"", "i", "d", "\"", " ", "=", " ", "$", "1", ",", " ", "\"", "i", "d", "\"", " ", "=", " ", "$", "2", " ", "W", "H", "E", "R", "E", " ", "?", " ", "=", " ", "7", " ", "A", "N", "D", " ", "i", "d", " ", "=", " ", "$", "3">>

\* C2: for PostgreSQL, in build_insert_stmt (column values), build_query_stmt and
\* build_delete_stmt (condition values) the k-th marker in input order is $k,
\* from $1; a value that is not the marker consumes no number.
C2_FreshNumbering ==
    typ = "PostgreSQL" =>
        /\ (op = "insert" /\ Len(cols) > 0) => out = InsertStmt
        /\ op = "query" => out = QueryStmt
        /\ op = "delete" => out = DeleteStmt
        /\ (op \in {"insert", "query", "delete"} /\ Markers > 0 /\ Len(out) > 0)
             => /\ \A k \in 1..Markers : Contains(out, <<"$">> \o Itoa(k))
                /\ ~Contains(out, <<"$">> \o Itoa(Markers + 1))

\* A literal between two markers: the markers are $1 and $2.
C2_Witness ==
    /\ typ = "PostgreSQL"
    /\ op = "delete"
    /\ tbl = <<"m", "y", "_", "t", "b", "l">>
    /\ conds = <<KV(<<"i", "d">>, <<"?">>), KV(<<"*">>, <<"'", "a", "?", "'">>), KV(<<"i", "d">>, <<"?">>)>>
    /\ out = <<"D", "E", "L", "E", "T", "E", " ", "F", "R", "O", "M", " ", "m", "y", "_", "t", "b", "l", " ", "W", "H", "E", "R", "E", " ", "i", "d", " ", "=", " ", "$", "1", " ", "A", "N", "D", " ", "*", " ", "=", " ", "'", "a", "?", "'", " ", "A", "N", "D", " ", "i", "d", " ", "=", " ", "$", "2">>

\* C3: for MySQL and SQLite every value, every repeated marker included, is in
\* the output of the four operations as it was given: no marker is numbered.
C3_NoNumbering ==
    typ \in {"MySQL", "SQLite"} =>
        /\ (op = "insert" /\ Len(cols) > 0) =>
             out = INSERT_INTO \o tbl \o <<" ", "(">>
                     \o Join([i \in 1..Len(cols) |-> Name(cols[i].key)], COMMA_SP)
                     \o <<")">> \o VALUES_SP \o <<"(">>
                     \o Join([i \in 1..Len(cols) |-> cols[i].val], COMMA_SP)
                     \o <<")">>
        /\ (op = "update" /\ Len(cols) > 0) =>
             out = UPDATE_SP \o tbl \o SET_SP
                     \o Join([i \in 1..Len(cols) |->
                                 Name(cols[i].key) \o EQ_SP \o cols[i].val], COMMA_SP)
                     \o (IF Len(conds) = 0 THEN <<>>
                         ELSE WHERE_SP \o Join([i \in 1..Len(conds) |->
                                  conds[i].key \o EQ_SP \o conds[i].val], AND_SP))
        /\ op \in {"query", "delete"} =>
             out = (IF op = "query" THEN SELECT_SP \o SelectList \o FROM_SP
                    ELSE DELETE_FROM) \o tbl
                     \o (IF Len(conds) = 0 THEN <<>>
                         ELSE WHERE_SP \o Join([i \in 1..Len(conds) |->
                                  conds[i].key \o EQ_SP \o conds[i].val], AND_SP))
        /\ op \in BuildOps => ~Contains(out, <<"$">>)

\* SQLite, three markers in one UPDATE: each stays a bare marker.
C3_Witness ==
    /\ typ = "SQLite"
    /\ op = "update"
    /\ tbl = <<"t">>
    /\ cols = <<KV(<<"i", "d">>, <<"?">>), KV(<<"i", "d">>, <<"?">>)>>
    /\ conds = <<KV(<<"i", "d">>, <<"?">>)>>
    /\ out = <<"U", "P", "D", "A", "T", "E", " ", "t", " ", "S", "E", "T", " ", "\"", "i", "d", "\"", " ", "=", " ", "?", ",", " ", "\"", "i", "d", "\"", " ", "=", " ", "?", " ", "W", "H", "E", "R", "E", " ", "i", "d", " ", "=", " ", "?">>

\* C4: for every dialect a value that is not exactly the marker (a literal, a
\* function call, a text that only contains the marker) is returned unchanged by
\* convert_placeholder, and for PostgreSQL the counter is left as it was.
C4_NonMarkerUnchanged ==
    /\ (op = "convert_placeholder" /\ ~IsMarker(arg)) => (out = arg /\ idx = begin)
    /\ (op \in BuildOps /\ Len(out) > 0) =>
         /\ \A i \in 1..Len(CallVals) :
              ~IsMarker(CallVals[i]) => Contains(out, CallVals[i])
         /\ Markers = 0 => idx = begin

\* PostgreSQL, the counter at 10, a doubled marker: returned as given, counter 10.
C4_Witness ==
    /\ op = "convert_placeholder"
    /\ typ = "PostgreSQL"
    /\ arg = <<"?", "?">>
    /\ begin = 10
    /\ out = <<"?", "?">>
    /\ idx = 10

\* C5: build_insert_stmt with an empty column list, and build_update_stmt with an
\* empty column list and any condition list, return the empty string, whatever
\* the dialect.
C5_EmptyColumns ==
    (op \in {"insert", "update"} /\ Len(cols) = 0) => out = <<>>

\* An UPDATE with no column and two conditions returned the empty string.
C5_Witness ==
    /\ op = "update"
    /\ cols = <<>>
    /\ Len(conds) = 2
    /\ out = <<>>

\* C6: with an empty condition list no WHERE text is appended: build_delete_stmt
\* returns DELETE FROM <table> (never the empty string), build_query_stmt returns
\* SELECT <cols> FROM <table>, and build_update_stmt with columns ends with its
\* SET clause, with no trailing space or keyword.
C6_NoWhere ==
    Len(conds) = 0 =>
        /\ op = "delete" => out = DELETE_FROM \o tbl
        /\ op = "query" => out = SELECT_SP \o SelectList \o FROM_SP \o tbl
        /\ (op = "update" /\ Len(cols) > 0) =>
             /\ out = UPDATE_SP \o tbl \o SET_SP \o SetClause
             /\ EndsWith(out, Translated(CallVals, Len(cols)))
        /\ op \in {"delete", "query", "update"} => ~Contains(out, WHERE_SP)

\* A DELETE with no condition.
C6_Witness ==
    /\ op = "delete"
    /\ conds = <<>>
    /\ tbl = <<"m", "y", "_", "t", "b", "l">>
    /\ out = <<"D", "E", "L", "E", "T", "E", " ", "F", "R", "O", "M", " ", "m", "y", "_", "t", "b", "l">>

\* C7: for every dialect and condition list, build_query_stmt with an empty
\* selected-column list emits the unquoted wildcard: SELECT * FROM <table>
\* followed by the condition clause.
C7_DefaultWildcard ==
    (op = "query" /\ Len(sel) = 0) =>
        out = <<"S", "E", "L", "E", "C", "T", " ", "*", " ", "F", "R", "O", "M", " ">> \o tbl \o WhereClause

\* MySQL, no selected column, one condition.
C7_Witness ==
    /\ op = "query"
    /\ typ = "MySQL"
    /\ sel = <<>>
    /\ tbl = <<"t">>
    /\ conds = <<KV(<<"i", "d">>, <<"?">>)>>
    /\ out = <<"S", "E", "L", "E", "C", "T", " ", "*", " ", "F", "R", "O", "M", " ", "t", " ", "W", "H", "E", "R", "E", " ", "i", "d", " ", "=", " ", "?">>

\* C8: for every dialect escape_col returns the name * as it is, unquoted, so
\* the selected-column list [*] gives SELECT * FROM <table>... in all dialects.
C8_WildcardNotQuoted ==
    /\ (op = "escape_col" /\ arg = STAR) => out = STAR
    /\ (op = "query" /\ sel = <<STAR>>) =>
         out = <<"S", "E", "L", "E", "C", "T", " ", "*", " ", "F", "R", "O", "M", " ">> \o tbl \o WhereClause

\* PostgreSQL, the selected columns are [*].
C8_Witness ==
    /\ op = "query"
    /\ typ = "PostgreSQL"
    /\ sel = <<STAR>>
    /\ tbl = <<"t">>
    /\ conds = <<>>
    /\ out = <<"S", "E", "L", "E", "C", "T", " ", "*", " ", "F", "R", "O", "M", " ", "t">>

\* C9: every column name other than * is emitted between backticks for MySQL and
\* between double quotes for PostgreSQL and SQLite, the name itself unchanged:
\* the column names of INSERT, the SET columns of UPDATE, the selected columns
\* of SELECT.
C9_Quoting ==
    /\ (op = "escape_col" /\ arg # STAR) => out = Quoted(arg)
    /\ (op = "insert" /\ Len(cols) > 0) =>
         /\ out = InsertStmt
         /\ \A i \in 1..Len(cols) :
              cols[i].key # STAR => Contains(out, Quoted(cols[i].key))
    /\ (op = "update" /\ Len(cols) > 0) =>
         /\ out = UpdateStmt
         /\ \A i \in 1..Len(cols) :
              cols[i].key # STAR => Contains(out, Quoted(cols[i].key) \o EQ_SP)
    /\ op = "query" =>
         /\ out = QueryStmt
         /\ \A i \in 1..Len(sel) : sel[i] # STAR => Contains(out, Quoted(sel[i]))

\* MySQL: the names id and ? of an INSERT are between backticks.
C9_Witness ==
    /\ op = "insert"
    /\ typ = "MySQL"
    /\ tbl = <<"t">>
    /\ cols = <<KV(<<"i", "d">>, <<"?">>), KV(<<"?">>, <<"7">>)>>
    /\ out = <<"I", "N", "S", "E", "R", "T", " ", "I", "N", "T", "O", " ", "t", " ", "(", "GRAVE", "i", "d", "GRAVE", ",", " ", "GRAVE", "?", "GRAVE", ")", " ", "V", "A", "L", "U", "E", "S", " ", "(", "?", ",", " ", "7", ")">>

\* C10: the same operation called again on the same builder with the same
\* arguments returns the same string, whatever calls were made in between; no
\* counter outlives a call, so a PostgreSQL statement with a marker has $1.
C10_Idempotent ==
    /\ SameCall => out = saved.out
    /\ (typ = "PostgreSQL" /\ op \in BuildOps /\ Markers > 0 /\ Len(out) > 0)
         => Contains(out, <<"$", "1">>)

\* PostgreSQL: a DELETE with a marker, another call, then the same DELETE again.
C10_Witness ==
    /\ SameCall
    /\ saved.between
    /\ typ = "PostgreSQL"
    /\ op = "delete"
    /\ conds = <<KV(<<"i", "d">>, <<"?">>), KV(<<"i", "d">>, <<"?">>)>>
    /\ out = <<"D", "E", "L", "E", "T", "E", " ", "F", "R", "O", "M", " ", "t", " ", "W", "H", "E", "R", "E", " ", "i", "d", " ", "=", " ", "$", "1", " ", "A", "N", "D", " ", "i", "d", " ", "=", " ", "$", "2">>
    /\ saved.out = out

\* s begins with t
StartsWith(s, t) == Len(s) >= Len(t) /\ SubSeq(s, 1, Len(t)) = t

\* How many times t occurs in s
Occurrences(s, t) ==
    Cardinality({i \in 1..(Len(s) - Len(t) + 1) : SubSeq(s, i, i + Len(t) - 1) = t})

\* C11: for a non-empty column list and every dialect the output of
\* build_insert_stmt starts with INSERT INTO <table> (, lists as many column
\* names as values, and the i-th value is the translation of the value given
\* with the i-th column.
C11_InsertShape ==
    (op = "insert" /\ Len(cols) > 0) =>
        LET head == INSERT_INTO \o tbl \o <<" ", "(">>
            mid == <<")", " ", "V", "A", "L", "U", "E", "S", " ", "(">>
            names == [i \in 1..Len(cols) |-> Name(cols[i].key)]
            vals == [i \in 1..Len(cols) |-> Translated(CallVals, i)]
        IN  /\ StartsWith(out, head)
            /\ out = head \o Join(names, COMMA_SP) \o mid \o Join(vals, COMMA_SP)
                       \o <<")">>
            /\ Occurrences(out, mid) = 1
            /\ \E p \in 1..Len(out) :
                 /\ SubSeq(out, p, p + Len(mid) - 1) = mid
                 /\ Occurrences(SubSeq(out, Len(head) + 1, p - 1), COMMA_SP)
                      = Len(cols) - 1
                 /\ Occurrences(SubSeq(out, p + Len(mid), Len(out) - 1), COMMA_SP)
                      = Len(cols) - 1

\* PostgreSQL: two columns, two values, each value under its column.
C11_Witness ==
    /\ op = "insert"
    /\ typ = "PostgreSQL"
    /\ tbl = <<"m", "y", "_", "t", "b", "l">>
    /\ cols = <<KV(<<"?">>, <<"7">>), KV(<<"i", "d">>, <<"?">>)>>
    /\ out = <<"I", "N", "S", "E", "R", "T", " ", "I", "N", "T", "O", " ", "m", "y", "_", "t", "b", "l", " ", "(", "\"", "?", "\"", ",", " ", "\"", "i", "d", "\"", ")", " ", "V", "A", "L", "U", "E", "S", " ", "(", "7", ",", " ", "$", "1", ")">>

\* C12: for a non-empty condition list the condition clause is WHERE followed by
\* one <key> = <translated value> term per condition, in input order, joined
\* with AND; the keys are emitted as given and never quoted, in any dialect.
C12_ConditionClause ==
    (op \in {"query", "delete", "update"} /\ Len(conds) > 0 /\ Len(out) > 0) =>
        LET terms == [i \in 1..Len(conds) |->
                        conds[i].key \o EQ_SP \o Translated(CallVals, Len(cols) + i)]
            clause == WHERE_SP \o Join(terms, AND_SP)
        IN  /\ EndsWith(out, clause)
            /\ Occurrences(out, WHERE_SP) = 1
            /\ Occurrences(clause, AND_SP) = Len(conds) - 1
            /\ \A i \in 1..Len(conds) :
                 conds[i].key # STAR =>
                   /\ ~Contains(clause, DQUOTE \o conds[i].key \o DQUOTE)
                   /\ ~Contains(clause, BACKTICK \o conds[i].key \o BACKTICK)

\* MySQL: an UPDATE quotes the SET column id and leaves the condition keys bare.
C12_Witness ==
    /\ op = "update"
    /\ typ = "MySQL"
    /\ tbl = <<"t">>
    /\ cols = <<KV(<<"i", "d">>, <<"?">>)>>
    /\ conds = <<KV(<<"i", "d">>, <<"?">>), KV(<<"?">>, <<"7">>), KV(<<"*">>, <<"'", "a", "?", "'">>)>>
    /\ out = <<"U", "P", "D", "A", "T", "E", " ", "t", " ", "S", "E", "T", " ", "GRAVE", "i", "d", "GRAVE", " ", "=", " ", "?", " ", "W", "H", "E", "R", "E", " ", "i", "d", " ", "=", " ", "?", " ", "A", "N", "D", " ", "?", " ", "=", " ", "7", " ", "A", "N", "D", " ", "*", " ", "=", " ", "'", "a", "?", "'">>

\* C13: after any sequence of build_insert_stmt, build_query_stmt,
\* build_update_stmt and build_delete_stmt calls the builder's table name and
\* dialect are unchanged: get_tbl and get_typ return what new was given.
C13_BuilderUnchanged ==
    /\ tbl = hist.tbl
    /\ typ = hist.typ
    /\ op = "get_tbl" => out = hist.tbl
    /\ op = "get_typ" => out = hist.typ

\* get_tbl after at least one build call.
C13_Witness ==
    /\ op = "get_tbl"
    /\ hist.built
    /\ hist.tbl = <<"m", "y", "_", "t", "b", "l">>
    /\ out = <<"m", "y", "_", "t", "b", "l">>

\* What the call of a thread returns when it is the only call in progress
Alone(c) ==
    IF c.op = "insert" THEN build_insert_stmt(Self, c.cols).s
    ELSE IF c.op = "query" THEN build_query_stmt(Self, c.sel, c.conds).s
    ELSE IF c.op = "update" THEN build_update_stmt(Self, c.cols, c.conds).s
    ELSE build_delete_stmt(Self, c.conds).s

\* How many of the first n values of a call are the marker
MarkersUpTo(c, n) == Cardinality({j \in 1..n : IsMarker(ValsOf(c)[j])})

\* C14: when several threads call build operations on one shared builder, in
\* any interleaving, each call returns the string it returns when run alone; the
\* counter of a call is never read or advanced by another call.
C14_ThreadsIndependent ==
    \A t \in Threads :
        /\ thr[t].pc = "done" => thr[t].out = Alone(thr[t])
        /\ thr[t].pc = "run" =>
             ctr[t] = PG_PLACEHOLDER_BEGIN_IDX
                        + (IF typ = "PostgreSQL" THEN MarkersUpTo(thr[t], thr[t].pos)
                           ELSE 0)

\* PostgreSQL: thread a returned an UPDATE numbered $1, $2 although it converted
\* while thread b was between its two conversions; b is still there.
C14_Witness ==
    /\ typ = "PostgreSQL"
    /\ tbl = <<"t">>
    /\ thr["a"].pc = "done"
    /\ thr["a"].mixed
    /\ thr["a"].out = <<"U", "P", "D", "A", "T", "E", " ", "t", " ", "S", "E", "T", " ", "\"", "i", "d", "\"", " ", "=", " ", "$", "1", " ", "W", "H", "E", "R", "E", " ", "i", "d", " ", "=", " ", "$", "2">>
    /\ thr["b"].pc = "run"
    /\ thr["b"].op = "delete"
    /\ thr["b"].pos = 1
    /\ thr["b"].acc = <<<<"$", "1">>>>
    /\ Len(thr["b"].conds) = 2

\* The characters the dialect-aware builder quotes names with
QuoteChars == {BACKTICK[1], DQUOTE[1]}

\* How many characters of s are in the set C
CountIn(s, C) == Cardinality({i \in 1..Len(s) : s[i] \in C})

\* The statement with every name and value exactly as the caller gave it
VerbatimWhere ==
    IF Len(conds) = 0 THEN <<>>
    ELSE WHERE_SP \o
         Join([i \in 1..Len(conds) |-> conds[i].key \o EQ_SP \o conds[i].val], AND_SP)

VerbatimStmt ==
    IF op \in {"insert", "update"} /\ Len(cols) = 0 THEN <<>>
    ELSE IF op = "insert"
    THEN INSERT_INTO \o tbl \o <<" ", "(">>
           \o Join([i \in 1..Len(cols) |-> cols[i].key], COMMA_SP)
           \o <<")">> \o VALUES_SP \o <<"(">>
           \o Join([i \in 1..Len(cols) |-> cols[i].val], COMMA_SP) \o <<")">>
    ELSE IF op = "query"
    THEN SELECT_SP \o (IF Len(sel) = 0 THEN STAR ELSE Join(sel, COMMA_SP))
           \o FROM_SP \o tbl \o VerbatimWhere
    ELSE IF op = "update"
    THEN UPDATE_SP \o tbl \o SET_SP
           \o Join([i \in 1..Len(cols) |-> cols[i].key \o EQ_SP \o cols[i].val],
                   COMMA_SP)
           \o VerbatimWhere
    ELSE DELETE_FROM \o tbl \o VerbatimWhere

\* The characters of the names and values given to the call that are in C
GivenIn(C) ==
    LET n(s) == CountIn(s, C)
        F[i \in 0..Len(CallVals)] == IF i = 0 THEN 0 ELSE F[i-1] + n(CallVals[i])
        K[i \in 0..Len(cols)] == IF i = 0 THEN 0 ELSE K[i-1] + n(cols[i].key)
        W[i \in 0..Len(conds)] == IF i = 0 THEN 0 ELSE W[i-1] + n(conds[i].key)
        S[i \in 0..Len(sel)] == IF i = 0 THEN 0 ELSE S[i-1] + n(sel[i])
    IN  F[Len(CallVals)] + K[Len(cols)] + W[Len(conds)] + S[Len(sel)]

\* C15: the sqlx StmtBuilder emits every column name, condition key and value
\* verbatim in all four operations: it adds no quote character and no $, so a
\* marker stays a marker and a $1 the caller wrote stays $1, whatever the
\* dialect of the other builder is.
C15_SqlxVerbatim ==
    (op \in BuildOps /\ hist.built) =>
        /\ xout = VerbatimStmt
        /\ CountIn(xout, QuoteChars) = 0
        /\ xout # <<>> =>
             /\ CountIn(xout, {"$"}) = GivenIn({"$"})
             /\ CountIn(xout, {"?"}) = GivenIn({"?"})

\* update of my_tbl with the columns (id, ?), (?, $1) and the condition (?, $1),
\* the other builder being a PostgreSQL one
C15_Witness ==
    /\ typ = "PostgreSQL"
    /\ op = "update"
    /\ cols = <<KV(<<"i", "d">>, <<"?">>), KV(<<"?">>, <<"$", "1">>)>>
    /\ conds = <<KV(<<"?">>, <<"$", "1">>)>>
    /\ xout = <<"U", "P", "D", "A", "T", "E", " ", "m", "y", "_", "t", "b", "l", " ", "S", "E", "T", " ", "i", "d", " ", "=", " ", "?", ",", " ", "?", " ", "=", " ", "$", "1", " ", "W", "H", "E", "R", "E", " ", "?", " ", "=", " ", "$", "1">>
    /\ out = <<"U", "P", "D", "A", "T", "E", " ", "m", "y", "_", "t", "b", "l", " ", "S", "E", "T", " ", "\"", "i", "d", "\"", " ", "=", " ", "$", "1", ",", " ", "\"", "?", "\"", " ", "=", " ", "$", "1", " ", "W", "H", "E", "R", "E", " ", "?", " ", "=", " ", "$", "1">>

\* s without the characters names are quoted with
StripQuotes(s) == SelectSeq(s, LAMBDA ch : ch \notin QuoteChars)

\* The names the dialect-aware builder quotes in this call
QuotedNames ==
    Cardinality({i \in 1..Len(cols) : cols[i].key # STAR})
      + Cardinality({i \in 1..Len(sel) : sel[i] # STAR})

\* C18: with MySQL or SQLite the two builders agree wherever quoting does not
\* apply: build_delete_stmt returns the same string from both, and for insert,
\* query and update the outputs differ only by the pair of quotes around each
\* column name other than the wildcard; both are empty for empty columns and
\* both select the wildcard for empty selected columns.
C18_BuildersAgree ==
    (op \in BuildOps /\ typ \in {"MySQL", "SQLite"}) =>
        /\ op = "delete" => out = xout
        /\ StripQuotes(out) = xout
        /\ Len(out) = Len(xout) + 2 * (IF out = <<>> THEN 0 ELSE QuotedNames)
        /\ (op \in {"insert", "update"} /\ Len(cols) = 0) => (out = <<>> /\ xout = <<>>)
        /\ (op = "query" /\ Len(sel) = 0) =>
             /\ StartsWith(out, SELECT_SP \o STAR \o FROM_SP)
             /\ StartsWith(xout, SELECT_SP \o STAR \o FROM_SP)
        /\ QuotedNames = 0 => out = xout

\* MySQL: the two UPDATEs of t differ by the backticks around id; the wildcard
\* name, the condition key and the values are the same in both
C18_Witness ==
    /\ typ = "MySQL"
    /\ op = "update"
    /\ cols = <<KV(<<"i", "d">>, <<"?">>), KV(<<"*">>, <<"'", "a", "?", "'">>)>>
    /\ conds = <<KV(<<"?">>, <<"$", "1">>)>>
    /\ out = <<"U", "P", "D", "A", "T", "E", " ", "t", " ", "S", "E", "T", " ", "GRAVE", "i", "d", "GRAVE", " ", "=", " ", "?", ",", " ", "*", " ", "=", " ", "'", "a", "?", "'", " ", "W", "H", "E", "R", "E", " ", "?", " ", "=", " ", "$", "1">>
    /\ xout = <<"U", "P", "D", "A", "T", "E", " ", "t", " ", "S", "E", "T", " ", "i", "d", " ", "=", " ", "?", ",", " ", "*", " ", "=", " ", "'", "a", "?", "'", " ", "W", "H", "E", "R", "E", " ", "?", " ", "=", " ", "$", "1">>

\* C16: for PostgreSQL one translation of a value equal to the marker, the
\* counter being at c, returns $c and leaves the counter at c+1. Translating a
\* marker is the only step that changes the counter: a value that is not the
\* marker, escape_col and the getters leave it alone, and a build call leaves it
\* at 1 plus the markers it translated. For MySQL and SQLite it never changes.
C16_TranslationStep ==
    /\ (op = "convert_placeholder" /\ typ = "PostgreSQL" /\ arg = PLACEHOLDER) =>
          /\ out = <<"$">> \o Itoa(begin)
          /\ idx = begin + 1
    /\ (op = "convert_placeholder" /\ typ = "PostgreSQL" /\ arg # PLACEHOLDER) =>
          idx = begin
    /\ op \in {"escape_col", "get_tbl", "get_typ"} => idx = begin
    /\ (op \in BuildOps /\ typ = "PostgreSQL") =>
          idx = PG_PLACEHOLDER_BEGIN_IDX + (IF out = <<>> THEN 0 ELSE Markers)
    /\ typ \in {"MySQL", "SQLite"} => idx = begin

\* PostgreSQL, the counter at 10: the marker becomes $10 and the counter 11
C16_Witness ==
    /\ op = "convert_placeholder"
    /\ typ = "PostgreSQL"
    /\ arg = <<"?">>
    /\ begin = 10
    /\ out = <<"$", "1", "0">>
    /\ idx = 11

IsDigit(ch) == ch \in {"0", "1", "2", "3", "4", "5", "6", "7", "8", "9"}

DigitVal(ch) == CHOOSE d \in 0..9 : Digit(d) = <<ch>>

\* The number written in s from position p on, acc being the digits read so far
RECURSIVE ReadNum(_, _, _)
ReadNum(s, p, acc) ==
    IF p <= Len(s) /\ IsDigit(s[p])
    THEN ReadNum(s, p + 1, acc * 10 + DigitVal(s[p]))
    ELSE acc

\* The positions of s where an index is emitted: a $ followed by a digit
IndexPositions(s) ==
    {p \in 1..Len(s) : s[p] = "$" /\ p < Len(s) /\ IsDigit(s[p + 1])}

\* The indices of the statement are 1, 2, ..., n, each once and in this order,
\* n being the number of markers among the values, and the counter ends at n+1
ExactlyNumbered ==
    /\ Cardinality(IndexPositions(out)) = Markers
    /\ CountIn(out, {"$"}) = Markers
    /\ \A k \in 1..Markers :
         Cardinality({p \in IndexPositions(out) : ReadNum(out, p + 1, 0) = k}) = 1
    /\ \A p, q \in IndexPositions(out) :
         p < q => ReadNum(out, p + 1, 0) < ReadNum(out, q + 1, 0)
    /\ idx = Markers + 1

\* C17 as stated: in every PostgreSQL build call whose values hold n markers the
\* emitted indices are exactly 1..n, each once, and the counter ends at n+1.
C17_AsStated ==
    (typ = "PostgreSQL" /\ op \in BuildOps) => ExactlyNumbered

\* C17: in a PostgreSQL build call that returns a statement (every call but
\* build_update_stmt and build_insert_stmt with an empty column list), the values
\* holding n markers, the emitted indices are exactly 1, 2, ..., n, each once,
\* without gap or repeat, and the counter ends at n+1; only values count: a
\* selected name or a key that is itself the marker gets no index.
C17_ExactIndices ==
    (typ = "PostgreSQL" /\ op \in BuildOps
       /\ ~(op \in {"insert", "update"} /\ Len(cols) = 0)) => ExactlyNumbered

\* PostgreSQL: a query selecting the name ? with the conditions (?, 7), (id, ?)
\* and (id, ?) emits $1 and $2 only, for the two values
C17_Witness ==
    /\ typ = "PostgreSQL"
    /\ op = "query"
    /\ sel = <<<<"?">>>>
    /\ conds = <<KV(<<"?">>, <<"7">>), KV(<<"i", "d">>, <<"?">>), KV(<<"i", "d">>, <<"?">>)>>
    /\ out = <<"S", "E", "L", "E", "C", "T", " ", "\"", "?", "\"", " ", "F", "R", "O", "M", " ", "t", " ", "W", "H", "E", "R", "E", " ", "?", " ", "=", " ", "7", " ", "A", "N", "D", " ", "i", "d", " ", "=", " ", "$", "1", " ", "A", "N", "D", " ", "i", "d", " ", "=", " ", "$", "2">>
    /\ idx = 3

====
